---- MODULE Spec2Model ----
(***************************************************************************)
(* A model of aunnnn/simple-http-server: the request framer and parser of  *)
(* HTTPConnectionHandler, the session loop and file dispatch of            *)
(* HTTPServer, and the thread dispatch of TCPServer.                       *)
(*                                                                         *)
(* Text is a sequence of symbols.  A symbol is either a single character   *)
(* that the code looks at ("\r", "\n", " ", ":", "/", "."), a single byte  *)
(* of a two-byte UTF-8 character, or a word: a run of ASCII characters     *)
(* none of which is a character the code looks at ("GET", "Host", ...).    *)
(* No word is a concatenation of other symbols, so equality and prefix of  *)
(* symbol sequences are equality and prefix of the strings they stand for. *)
(***************************************************************************)
EXTENDS Integers, Sequences, FiniteSets, TLC

VARIABLES
    \* ---- one HTTP session (HTTPServer.handle_tcp_connection) ----
    stream,            \* the bytes the client sends on this connection
    pos,               \* how many of them recv() has delivered
    unprocessed_data,  \* HTTPConnectionHandler.unprocessed_data (str)
    pc,                \* where the session is
    request,           \* the HTTPRequest being dispatched
    serve_config,      \* HTTPServer.serve_config, as the set of its keys
    log,               \* what the session did to the connection, in order
    outcome,           \* what ended the session
    \* ---- the parser on its own ----
    request_string,    \* argument of __parse_request
    parse_result,      \* what it returned or raised
    \* ---- TCPServer ----
    use_daemon_threads,
    cap,               \* max_number_of_active_threads, 0 for None
    semaphore,         \* value of the BoundedSemaphore
    tpc,               \* position of each worker thread
    threads,           \* TCPServer.__threads: its entries in insertion order
    main_pc,           \* position of the main thread
    pending,           \* thread started but not yet entered in __threads
    it_used,           \* dict iterator: size of the dict when it was made
    it_pos,            \* dict iterator: entries of `threads` passed
    joining            \* the thread server_close is joining

session_vars == <<stream, pos, unprocessed_data, pc, request, serve_config,
                  log, outcome>>
parser_vars == <<request_string, parse_result>>
tcp_vars == <<use_daemon_threads, cap, semaphore, tpc, threads,
              main_pc, pending, it_used, it_pos, joining>>
vars == <<session_vars, parser_vars, tcp_vars>>

(***************************************************************************)
(* Bounds of the model.                                                    *)
(***************************************************************************)
MaxRequests == 2      \* requests a client puts on one connection
MaxHeadline == 5      \* symbols of a request line given to the parser
MaxHeaderLines == 2   \* header lines of a frame given to the parser
MaxSegments == 3      \* segments of a request path given to dispatch
MaxThreads == 3       \* connections the listener accepts

(***************************************************************************)
(* Strings.                                                                *)
(***************************************************************************)
Min(a, b) == IF a <= b THEN a ELSE b

SeqsUpTo(S, n) == UNION {[1..k -> S] : k \in 0..n}

\* s.startswith(p)
StartsWith(s, p) == Len(p) <= Len(s) /\ SubSeq(s, 1, Len(p)) = p

\* s.find(sub) + 1: the least index at which sub occurs in s, 0 if none
Find(s, sub) ==
    LET hits == {i \in 1..(Len(s) - Len(sub) + 1) :
                     SubSeq(s, i, i + Len(sub) - 1) = sub}
    IN  IF hits = {} THEN 0 ELSE CHOOSE i \in hits : \A j \in hits : i <= j

\* sub in s
Contains(s, sub) == Find(s, sub) # 0

\* s.split(sep): the pieces between the successive, leftmost occurrences
RECURSIVE Split(_, _)
Split(s, sep) ==
    LET i == Find(s, sep)
    IN  IF i = 0 THEN <<s>>
        ELSE <<SubSeq(s, 1, i - 1)>> \o Split(SubSeq(s, i + Len(sep), Len(s)), sep)

\* sep.join(parts)
RECURSIVE Join(_, _)
Join(parts, sep) ==
    IF parts = <<>> THEN <<>>
    ELSE IF Len(parts) = 1 THEN parts[1]
    ELSE parts[1] \o sep \o Join(Tail(parts), sep)

RECURSIVE Concat(_)
Concat(parts) == IF parts = <<>> THEN <<>> ELSE parts[1] \o Concat(Tail(parts))

CRLF == <<"\r", "\n">>
END_OF_REQUEST == <<"\r", "\n", "\r", "\n">>
buffer_size == 4096

(***************************************************************************)
(* bytes.decode('utf-8').  The bytes of the model are the ASCII symbols    *)
(* and the two bytes xC3 xA9 of the character U+00E9.  A lead byte must be *)
(* followed by its continuation byte; anything else raises                 *)
(* UnicodeDecodeError.                                                     *)
(***************************************************************************)
LeadByte == "xC3"
ContByte == "xA9"
EAcute == "U+00E9"

RECURSIVE DecodeOk(_)
DecodeOk(bytes) ==
    IF bytes = <<>> THEN TRUE
    ELSE IF bytes[1] = LeadByte
         THEN Len(bytes) >= 2 /\ bytes[2] = ContByte
              /\ DecodeOk(SubSeq(bytes, 3, Len(bytes)))
    ELSE IF bytes[1] = ContByte THEN FALSE
    ELSE DecodeOk(Tail(bytes))

\* the decoded str, for bytes with DecodeOk
RECURSIVE Decode(_)
Decode(bytes) ==
    IF bytes = <<>> THEN <<>>
    ELSE IF bytes[1] = LeadByte
         THEN <<EAcute>> \o Decode(SubSeq(bytes, 3, Len(bytes)))
    ELSE <<bytes[1]>> \o Decode(Tail(bytes))

(***************************************************************************)
(* HTTPConnectionHandler.__parse_request.  The result is a record: ok says *)
(* whether an HTTPRequest was returned; when not, error is the kind of     *)
(* BadRequestError raised.                                                 *)
(***************************************************************************)
HTTPRequest(command, path, headers) ==
    [ok |-> TRUE, command |-> command, path |-> path, headers |-> headers,
     error |-> "none"]

BadRequestError(kind) ==
    [ok |-> FALSE, command |-> <<>>, path |-> <<>>, headers |-> <<>>,
     error |-> kind]

required_keys == {<<"Host">>}

\* the dict built by the loop over lines[1:]: a later line overwrites
RECURSIVE HeadersOf(_)
HeadersOf(lines) ==
    IF lines = <<>> THEN [k \in {} |-> <<>>]
    ELSE LET before == HeadersOf(SubSeq(lines, 1, Len(lines) - 1))
             key_value == Split(lines[Len(lines)], <<":", " ">>)
         IN  [k \in (DOMAIN before) \cup {key_value[1]} |->
                 IF k = key_value[1] THEN key_value[2] ELSE before[k]]

\* as parse_request, without the test of the required headers
parse_request_NoRequiredKeys(rs) ==
    LET lines == Split(rs, CRLF)
        headline == lines[1]
        headline_components == Split(headline, <<" ">>)
        header_lines == Tail(lines)
    IN  IF Len(headline_components) # 3 THEN BadRequestError("headline")
        ELSE IF headline_components[1] # <<"GET">> THEN BadRequestError("command")
        ELSE IF headline_components[3] # <<"HTTP/1.1">> THEN BadRequestError("version")
        ELSE IF \E i \in 1..Len(header_lines) :
                    Len(Split(header_lines[i], <<":", " ">>)) # 2
             THEN BadRequestError("header")
        ELSE HTTPRequest(headline_components[1], headline_components[2],
                         HeadersOf(header_lines))

parse_request(rs) ==
    LET lines == Split(rs, CRLF)
        headline == lines[1]
        headline_components == Split(headline, <<" ">>)
        header_lines == Tail(lines)
    IN  IF Len(headline_components) # 3 THEN BadRequestError("headline")
        ELSE IF headline_components[1] # <<"GET">> THEN BadRequestError("command")
        ELSE IF headline_components[3] # <<"HTTP/1.1">> THEN BadRequestError("version")
        ELSE IF \E i \in 1..Len(header_lines) :
                    Len(Split(header_lines[i], <<":", " ">>)) # 2
             THEN BadRequestError("header")
        ELSE LET headers == HeadersOf(header_lines)
             IN  IF Cardinality((DOMAIN headers) \cap required_keys)
                        < Cardinality(required_keys)
                 THEN BadRequestError("required")
                 ELSE HTTPRequest(headline_components[1], headline_components[2],
                                  headers)

is_connection_keep_alive(req) ==
    /\ <<"Connection">> \in DOMAIN req.headers
    /\ req.headers[<<"Connection">>] = <<"keep-alive">>

(***************************************************************************)
(* Paths: os.path.join, os.path.normpath and os.path.abspath of POSIX, on  *)
(* symbol sequences.  A path segment is the run of symbols between two     *)
(* "/"; ".." is the two symbols ".", ".".                                  *)
(***************************************************************************)
Slash == <<"/">>
DotDot == <<".", ".">>
Dot == <<".">>

os_path_join(a, b) ==
    IF StartsWith(b, Slash) THEN b
    ELSE IF a = <<>> \/ a[Len(a)] = "/" THEN a \o b
    ELSE a \o Slash \o b

RECURSIVE NormComps(_, _, _)
NormComps(comps, new_comps, initial_slashes) ==
    IF comps = <<>> THEN new_comps
    ELSE LET comp == comps[1]
             rest == Tail(comps)
         IN  IF comp = <<>> \/ comp = Dot
             THEN NormComps(rest, new_comps, initial_slashes)
             ELSE IF \/ comp # DotDot
                     \/ (initial_slashes = 0 /\ new_comps = <<>>)
                     \/ (new_comps # <<>> /\ new_comps[Len(new_comps)] = DotDot)
             THEN NormComps(rest, Append(new_comps, comp), initial_slashes)
             ELSE IF new_comps # <<>>
             THEN NormComps(rest, SubSeq(new_comps, 1, Len(new_comps) - 1),
                            initial_slashes)
             ELSE NormComps(rest, new_comps, initial_slashes)

os_path_normpath(path) ==
    IF path = <<>> THEN Dot
    ELSE LET initial_slashes ==
                 IF ~StartsWith(path, Slash) THEN 0
                 ELSE IF StartsWith(path, <<"/", "/">>)
                         /\ ~StartsWith(path, <<"/", "/", "/">>) THEN 2
                 ELSE 1
             comps == NormComps(Split(path, Slash), <<>>, initial_slashes)
             joined == Join(comps, Slash)
             result == (IF initial_slashes = 2 THEN <<"/", "/">>
                        ELSE IF initial_slashes = 1 THEN Slash ELSE <<>>) \o joined
         IN  IF result = <<>> THEN Dot ELSE result

\* the working directory of the server process
cwd == <<"/", "c">>

os_path_abspath(path) ==
    os_path_normpath(IF StartsWith(path, Slash) THEN path
                     ELSE os_path_join(cwd, path))

(***************************************************************************)
(* The file system the server runs on: the docroot /c/d, a sibling         *)
(* directory /c/d2 whose name begins with the docroot's, and a file /c/e   *)
(* outside both.                                                           *)
(***************************************************************************)
AbsPath(segments) == Slash \o Join(segments, Slash)

\* HTTPServer.serve_docroot, as demo.py passes it: relative to cwd
serve_docroot == <<"d">>

FileSizes ==
    (AbsPath(<< <<"c">>, <<"d">>, <<"index.html">> >>) :> 2)
    @@ (AbsPath(<< <<"c">>, <<"d">>, <<"f">> >>) :> 1)
    @@ (AbsPath(<< <<"c">>, <<"d">>, <<"400.html">> >>) :> 1)
    @@ (AbsPath(<< <<"c">>, <<"d">>, <<"404.html">> >>) :> 1)
    @@ (AbsPath(<< <<"c">>, <<"d">>, <<"sub">>, <<"f">> >>) :> 1)
    @@ (AbsPath(<< <<"c">>, <<"d", "2">>, <<"f">> >>) :> 2)
    @@ (AbsPath(<< <<"c">>, <<"e">> >>) :> 1)

Files == DOMAIN FileSizes

Dirs == {Slash,
         AbsPath(<< <<"c">> >>),
         AbsPath(<< <<"c">>, <<"d">> >>),
         AbsPath(<< <<"c">>, <<"d">>, <<"sub">> >>),
         AbsPath(<< <<"c">>, <<"d", "2">> >>)}

os_path_exists(path) == path \in Files \cup Dirs

\* os.path.getsize: the size of a directory is that of its inode
os_path_getsize(path) == IF path \in Files THEN FileSizes[path] ELSE 1

\* serve_config as demo.py can pass it: which of '400', '404' it maps
\* ('400' to 400.html, '404' to 404.html); 'index' is left to its default
Configs == SUBSET {"400", "404"}

ConfigPage(key) == IF key = "400" THEN <<"400.html">> ELSE <<"404.html">>

get_index_html_path == os_path_join(Slash, <<"index.html">>)

get_abspath_relative_to_docroot(path) ==
    os_path_abspath(os_path_join(serve_docroot, path))

(***************************************************************************)
(* What a session does to its connection, as events in order.              *)
(***************************************************************************)
Event(op, code, connection, content_length, data, n) ==
    [op |-> op, code |-> code, connection |-> connection,
     content_length |-> content_length, data |-> data, n |-> n]

\* __detect_request_from_socket cut this frame off the buffer
FrameEvent(frame) == Event("frame", 0, "", -1, frame, 0)

\* send_response(HTTPResponse(code, headers)); content_length -1: no such header
ResponseEvent(code, connection, content_length) ==
    Event("send_response", code, connection, content_length, <<>>, 0)

client_error_400 == ResponseEvent(400, "close", -1)
not_found_404 == ResponseEvent(404, "close", -1)

\* send_file(path) streamed n bytes
FileEvent(path, n) == Event("send_file", 0, "", -1, path, n)

CloseEvent == Event("close", 0, "", -1, <<>>, 0)

Result(events, exc) == [events |-> events, exc |-> exc]

(***************************************************************************)
(* HTTPConnectionHandler.send_response: sendall either completes or raises *)
(* OSError (the peer is gone).  The event records the call.                *)
(***************************************************************************)
send_response(response) ==
    {Result(<<response>>, "none"), Result(<<response>>, "OSError")}

(***************************************************************************)
(* HTTPConnectionHandler has no method send_body: the call raises          *)
(* AttributeError and sends nothing.                                       *)
(***************************************************************************)
send_body(path) == {Result(<<>>, "AttributeError")}

(***************************************************************************)
(* HTTPConnectionHandler.send_file: open() raises on a directory; sendfile *)
(* streams the file as it is at that moment (another process may have      *)
(* changed its length since getsize), or raises OSError.                   *)
(***************************************************************************)
send_file(path) ==
    IF path \in Dirs THEN {Result(<<>>, "IsADirectoryError")}
    ELSE LET size == os_path_getsize(path)
         IN  {Result(<<FileEvent(path, n)>>, "none") : n \in {size - 1, size, size + 1}}
             \cup {Result(<<FileEvent(path, 0)>>, "OSError")}

\* run `second` after each outcome of `first` that raised nothing
AndThen(first, second) ==
    {r \in first : r.exc # "none"}
    \cup {Result(r.events \o s.events, s.exc) :
             r \in {x \in first : x.exc = "none"}, s \in second}

\* as serve_file, without the assert of line 113
serve_file_NoAssert(path, config) ==
    LET requested_path == IF path = Slash THEN get_index_html_path ELSE path
        stripped == IF StartsWith(requested_path, Slash)
                    THEN Tail(requested_path) ELSE requested_path
        abs_requested_path == get_abspath_relative_to_docroot(stripped)
        abs_docroot_path == os_path_abspath(serve_docroot)
    IN  IF ~StartsWith(abs_requested_path, abs_docroot_path)
        THEN IF "400" \in config
             THEN AndThen(send_response(client_error_400),
                          send_body(get_abspath_relative_to_docroot(ConfigPage("400"))))
             ELSE send_response(client_error_400)
        ELSE IF ~os_path_exists(abs_requested_path)
        THEN IF "404" \in config
             THEN AndThen(send_response(not_found_404),
                          send_body(get_abspath_relative_to_docroot(ConfigPage("404"))))
             ELSE send_response(not_found_404)
        ELSE AndThen(send_response(ResponseEvent(200, "",
                                                 os_path_getsize(abs_requested_path))),
                     send_file(abs_requested_path))

(***************************************************************************)
(* HTTPServer.__serve_file: the possible outcomes of dispatching a request *)
(* for `path` under `config`.                                              *)
(***************************************************************************)
serve_file(path, config) ==
    LET requested_path == IF path = Slash THEN get_index_html_path ELSE path
        stripped == IF StartsWith(requested_path, Slash)
                    THEN Tail(requested_path) ELSE requested_path
        abs_requested_path == get_abspath_relative_to_docroot(stripped)
        abs_docroot_path == os_path_abspath(serve_docroot)
    IN  IF ~StartsWith(abs_requested_path, abs_docroot_path)
        THEN IF "400" \in config
             THEN AndThen(send_response(client_error_400),
                          send_body(get_abspath_relative_to_docroot(ConfigPage("400"))))
             ELSE send_response(client_error_400)
        ELSE IF ~os_path_exists(abs_requested_path)
        THEN IF "404" \in config
             THEN AndThen(send_response(not_found_404),
                          send_body(get_abspath_relative_to_docroot(ConfigPage("404"))))
             ELSE send_response(not_found_404)
        ELSE LET file_size == os_path_getsize(abs_requested_path)
                 sent == AndThen(send_response(ResponseEvent(200, "", file_size)),
                                 send_file(abs_requested_path))
             IN  {IF r.exc = "none" /\ r.events[2].n # file_size
                  THEN Result(r.events, "AssertionError") ELSE r : r \in sent}

(***************************************************************************)
(* One session: HTTPServer.handle_tcp_connection with the framer           *)
(* HTTPConnectionHandler.__detect_request_from_socket.  pc is              *)
(* "get_request" at the top of the framer's loop, "serve_file" when a      *)
(* request was returned and is to be dispatched, "closed" after the        *)
(* finally clause.                                                         *)
(***************************************************************************)
NoRequest == BadRequestError("none")
Running == [how |-> "running", exc |-> "none"]
Ended(how, exc) == [how |-> how, exc |-> exc]

\* The session ends: `events` are the last things done to the connection, then
\* the finally clause runs http_connection.close().  how is the way out of
\* the loop ("peer_closed", "not_keep_alive", "timeout", "bad_request",
\* "recv_raised", "serve_file_raised"), exc the exception that escapes.
Finally_CloseOnlyOnReturn(events, how, exc) ==
    /\ log' = log \o events \o (IF exc = "none" THEN <<CloseEvent>> ELSE <<>>)
    /\ pc' = "closed"
    /\ outcome' = Ended(how, exc)

Finally(events, how, exc) ==
    /\ log' = log \o events \o <<CloseEvent>>
    /\ pc' = "closed"
    /\ outcome' = Ended(how, exc)

\* as DetectRequest, with BadRequestError caught inside the loop: the 400 is
\* sent and the session goes on to the next frame
DetectRequest_ContinueAfterBadRequest ==
    /\ pc = "get_request"
    /\ Contains(unprocessed_data, END_OF_REQUEST)
    /\ LET end_of_request_index == Find(unprocessed_data, END_OF_REQUEST)
           frame == SubSeq(unprocessed_data, 1, end_of_request_index - 1)
           parsed == parse_request(frame)
       IN  /\ unprocessed_data' =
                  SubSeq(unprocessed_data,
                         end_of_request_index + Len(END_OF_REQUEST),
                         Len(unprocessed_data))
           /\ IF parsed.ok
              THEN /\ request' = parsed
                   /\ log' = Append(log, FrameEvent(frame))
                   /\ pc' = "serve_file"
                   /\ UNCHANGED outcome
              ELSE /\ log' = log \o <<FrameEvent(frame), client_error_400>>
                   /\ UNCHANGED <<pc, outcome, request>>
    /\ UNCHANGED <<stream, pos, serve_config, parser_vars, tcp_vars>>

\* line 105-112: a complete request is in the buffer; cut it off and parse it
DetectRequest ==
    /\ pc = "get_request"
    /\ Contains(unprocessed_data, END_OF_REQUEST)
    /\ LET end_of_request_index == Find(unprocessed_data, END_OF_REQUEST)
           frame == SubSeq(unprocessed_data, 1, end_of_request_index - 1)
           parsed == parse_request(frame)
       IN  /\ unprocessed_data' =
                  SubSeq(unprocessed_data,
                         end_of_request_index + Len(END_OF_REQUEST),
                         Len(unprocessed_data))
           /\ IF parsed.ok
              THEN /\ request' = parsed
                   /\ log' = Append(log, FrameEvent(frame))
                   /\ pc' = "serve_file"
                   /\ UNCHANGED outcome
              ELSE \* except BadRequestError
                   /\ \E sent \in send_response(client_error_400) :
                          Finally(<<FrameEvent(frame)>> \o sent.events,
                                  "bad_request", sent.exc)
                   /\ UNCHANGED request
    /\ UNCHANGED <<stream, pos, serve_config, parser_vars, tcp_vars>>

\* as Recv, with the socket also read while a request is being dispatched
Recv_WhileDispatching(k) ==
    /\ pc \in {"get_request", "serve_file"}
    /\ ~Contains(unprocessed_data, END_OF_REQUEST)
    /\ k \in 1..Min(buffer_size, Len(stream) - pos)
    /\ LET data == SubSeq(stream, pos + 1, pos + k)
       IN  /\ pos' = pos + k
           /\ IF DecodeOk(data)
              THEN /\ unprocessed_data' = unprocessed_data \o Decode(data)
                   /\ UNCHANGED <<pc, log, outcome>>
              ELSE /\ Finally(<<>>, "recv_raised", "UnicodeDecodeError")
                   /\ UNCHANGED unprocessed_data
    /\ UNCHANGED <<stream, request, serve_config, parser_vars, tcp_vars>>

\* line 115-120: recv() delivers the next k bytes, which are decoded and appended
Recv(k) ==
    /\ pc = "get_request"
    /\ ~Contains(unprocessed_data, END_OF_REQUEST)
    /\ k \in 1..Min(buffer_size, Len(stream) - pos)
    /\ LET data == SubSeq(stream, pos + 1, pos + k)
       IN  /\ pos' = pos + k
           /\ IF DecodeOk(data)
              THEN /\ unprocessed_data' = unprocessed_data \o Decode(data)
                   /\ UNCHANGED <<pc, log, outcome>>
              ELSE \* UnicodeDecodeError is caught by no except clause
                   /\ Finally(<<>>, "recv_raised", "UnicodeDecodeError")
                   /\ UNCHANGED unprocessed_data
    /\ UNCHANGED <<stream, request, serve_config, parser_vars, tcp_vars>>

\* as RecvNoData, with a partial request answered as it is on a timeout
RecvNoData_400OnPartial ==
    /\ pc = "get_request"
    /\ ~Contains(unprocessed_data, END_OF_REQUEST)
    /\ pos = Len(stream)
    /\ IF Len(unprocessed_data) > 0
       THEN \E sent \in send_response(client_error_400) :
                Finally(sent.events, "peer_closed", sent.exc)
       ELSE Finally(<<>>, "peer_closed", "none")
    /\ UNCHANGED <<stream, pos, unprocessed_data, request, serve_config,
                   parser_vars, tcp_vars>>

\* line 116-118, 123: the peer closed; get_request returns None and the loop breaks
RecvNoData ==
    /\ pc = "get_request"
    /\ ~Contains(unprocessed_data, END_OF_REQUEST)
    /\ pos = Len(stream)
    /\ Finally(<<>>, "peer_closed", "none")
    /\ UNCHANGED <<stream, pos, unprocessed_data, request, serve_config,
                   parser_vars, tcp_vars>>

\* as RecvTimeout, without the test of unprocessed_data
RecvTimeout_Always400 ==
    /\ pc = "get_request"
    /\ ~Contains(unprocessed_data, END_OF_REQUEST)
    /\ \E sent \in send_response(client_error_400) :
           Finally(sent.events, "timeout", sent.exc)
    /\ UNCHANGED <<stream, pos, unprocessed_data, request, serve_config,
                   parser_vars, tcp_vars>>

\* line 121-122 and HTTPServer line 36-39: nothing arrived within recv_timeout
RecvTimeout ==
    /\ pc = "get_request"
    /\ ~Contains(unprocessed_data, END_OF_REQUEST)
    /\ IF Len(unprocessed_data) > 0
       THEN \E sent \in send_response(client_error_400) :
                Finally(sent.events, "timeout", sent.exc)
       ELSE Finally(<<>>, "timeout", "none")
    /\ UNCHANGED <<stream, pos, unprocessed_data, request, serve_config,
                   parser_vars, tcp_vars>>

\* recv() raises another socket error (connection reset)
RecvFails ==
    /\ pc = "get_request"
    /\ ~Contains(unprocessed_data, END_OF_REQUEST)
    /\ Finally(<<>>, "recv_raised", "OSError")
    /\ UNCHANGED <<stream, pos, unprocessed_data, request, serve_config,
                   parser_vars, tcp_vars>>

\* HTTPServer line 33-35: dispatch the request, then look at keep-alive
ServeFile ==
    /\ pc = "serve_file"
    /\ \E served \in serve_file(request.path, serve_config) :
           IF served.exc # "none"
           THEN Finally(served.events, "serve_file_raised", served.exc)
           ELSE IF ~is_connection_keep_alive(request)
           THEN Finally(served.events, "not_keep_alive", "none")
           ELSE /\ log' = log \o served.events
                /\ pc' = "get_request"
                /\ UNCHANGED outcome
    /\ UNCHANGED <<stream, pos, unprocessed_data, request, serve_config,
                   parser_vars, tcp_vars>>

(***************************************************************************)
(* The byte streams of the clients of the model: up to MaxRequests pieces, *)
(* each a complete request or the beginning of one.                        *)
(***************************************************************************)
RequestBytes(path, keep_alive, version) ==
    <<"GET", " ">> \o path \o <<" ", version>> \o CRLF
    \o <<"Host", ":", " ", "h">>
    \o (IF keep_alive THEN CRLF \o <<"Connection", ":", " ", "keep-alive">>
        ELSE <<>>)
    \o END_OF_REQUEST

Pieces ==
    {RequestBytes(<<"/", "f">>, TRUE, "HTTP/1.1"),
     RequestBytes(<<"/", "f">>, FALSE, "HTTP/1.1"),
     RequestBytes(<<"/", "m">>, TRUE, "HTTP/1.1"),
     RequestBytes(<<"/", "sub">>, TRUE, "HTTP/1.1"),
     RequestBytes(<<"/", ".", ".", "/", "e">>, TRUE, "HTTP/1.1"),
     RequestBytes(<<"/", "f">>, TRUE, "HTTP/1.0"),
     RequestBytes(<<"/", LeadByte, ContByte>>, FALSE, "HTTP/1.1"),
     <<"GET", " ", "/", "f">>}

Streams(n) == {Concat(ps) : ps \in SeqsUpTo(Pieces, n)}

\* the configurations of the sessions of the model: the server's default
\* and the one demo.py sets
SessionConfigs == {{}, {"400", "404"}}

ParserIdle ==
    /\ request_string = <<>>
    /\ parse_result = NoRequest

TcpIdle ==
    /\ use_daemon_threads = TRUE
    /\ cap = 0
    /\ semaphore = 0
    /\ tpc = <<>>
    /\ threads = <<>>
    /\ main_pc = "idle"
    /\ pending = 0
    /\ it_used = 0
    /\ it_pos = 0
    /\ joining = 0

Init ==
    /\ stream \in Streams(MaxRequests)
    /\ pos = 0
    /\ unprocessed_data = <<>>
    /\ pc = "get_request"
    /\ request = NoRequest
    /\ serve_config \in SessionConfigs
    /\ log = <<>>
    /\ outcome = Running
    /\ ParserIdle
    /\ TcpIdle

Next ==
    \/ DetectRequest
    \/ \E k \in 1..(Len(stream) - pos) : Recv(k)
    \/ RecvNoData
    \/ RecvTimeout
    \/ RecvFails
    \/ ServeFile

Spec == Init /\ [][Next]_vars

(***************************************************************************)
(* Reading the log.                                                        *)
(***************************************************************************)
IsFrame(e) == e.op = "frame"
IsResponse(e) == e.op = "send_response"
IsClose(e) == e.op = "close"

FramesOf(events) == [i \in 1..Len(SelectSeq(events, IsFrame)) |->
                        SelectSeq(events, IsFrame)[i].data]

IsPrefix(s, t) == Len(s) <= Len(t) /\ SubSeq(t, 1, Len(s)) = s

\* index of the last frame event of the log, 0 if none
LastFrameIndex ==
    LET at == {i \in DOMAIN log : IsFrame(log[i])}
    IN  IF at = {} THEN 0 ELSE CHOOSE i \in at : \A j \in at : j <= i

\* the events after the last frame event
SinceLastFrame == SubSeq(log, LastFrameIndex + 1, Len(log))

(***************************************************************************)
(* The frames a text holds when it is in the buffer all at once, and what  *)
(* is left after the last of them.                                         *)
(***************************************************************************)
RECURSIVE WholeFrames(_)
WholeFrames(text) ==
    LET i == Find(text, END_OF_REQUEST)
    IN  IF i = 0 THEN <<>>
        ELSE <<SubSeq(text, 1, i - 1)>>
             \o WholeFrames(SubSeq(text, i + Len(END_OF_REQUEST), Len(text)))

RECURSIVE WholeRest(_)
WholeRest(text) ==
    LET i == Find(text, END_OF_REQUEST)
    IN  IF i = 0 THEN text
        ELSE WholeRest(SubSeq(text, i + Len(END_OF_REQUEST), Len(text)))

(***************************************************************************)
(* C1.  Chunking-invariance of the framer: whatever way a byte stream is   *)
(* split into recv() chunks, get_request extracts the frames, and leaves   *)
(* the bytes, that it extracts and leaves when the stream arrives in one   *)
(* read.  For a stream that decodes as a whole: no chunking makes the      *)
(* framer fail to decode, the frames extracted so far are the first frames *)
(* of the whole stream, and when the framer has seen the end of the stream *)
(* they are all of them and the buffer holds the rest.                     *)
(***************************************************************************)
C1_ChunkingInvariance ==
    DecodeOk(stream) =>
        /\ outcome.exc # "UnicodeDecodeError"
        /\ IsPrefix(FramesOf(log), WholeFrames(Decode(stream)))
        /\ outcome.how = "peer_closed" =>
               /\ FramesOf(log) = WholeFrames(Decode(stream))
               /\ unprocessed_data = WholeRest(Decode(stream))

(***************************************************************************)
(* C3.  Keep-alive continuation: once a parsed request has been answered   *)
(* the session waits for the next frame if and only if the request carried *)
(* Connection: keep-alive.  A request that is followed by another frame    *)
(* carried it; a request without it gets exactly one response and the      *)
(* close; a request with it that was answered is not what ended the        *)
(* session (a send that failed, a file that changed under the server or a  *)
(* body that could not be opened leaves the request unanswered).           *)
(***************************************************************************)
C3_KeepAliveContinuation ==
    /\ \A i \in DOMAIN log :
           (IsFrame(log[i]) /\ i # LastFrameIndex)
               => is_connection_keep_alive(parse_request(log[i].data))
    /\ (LastFrameIndex # 0 /\ pc = "closed"
            /\ parse_request(log[LastFrameIndex].data).ok) =>
           LET req == parse_request(log[LastFrameIndex].data)
           IN  IF is_connection_keep_alive(req)
               THEN /\ outcome.how # "not_keep_alive"
                    /\ outcome.how = "serve_file_raised"
                           => outcome.exc \in {"OSError", "AssertionError",
                                               "IsADirectoryError"}
               ELSE /\ outcome.how \in {"not_keep_alive", "serve_file_raised"}
                    /\ Len(SelectSeq(SinceLastFrame, IsResponse)) = 1
                    /\ IsClose(log[Len(log)])

(***************************************************************************)
(* C5.  Every way out of the session closes the connection exactly once:   *)
(* a session that has ended has called close() once, as the last thing it  *)
(* did; one that has not ended has not called it, and is in the framer     *)
(* (where recv() returns or times out) or has a request whose dispatch     *)
(* has an outcome.                                                         *)
(***************************************************************************)
C5_ClosedExactlyOnce ==
    /\ pc = "closed" =>
           /\ Len(SelectSeq(log, IsClose)) = 1
           /\ IsClose(log[Len(log)])
           /\ outcome.how \in {"peer_closed", "not_keep_alive", "timeout",
                               "bad_request", "recv_raised", "serve_file_raised"}
    /\ pc # "closed" =>
           /\ Len(SelectSeq(log, IsClose)) = 0
           /\ outcome = Running
           /\ pc \in {"get_request", "serve_file"}
           /\ pc = "serve_file" =>
                  request.ok /\ serve_file(request.path, serve_config) # {}

\* a session ended by the call of the method that does not exist
C5_Witness ==
    /\ pc = "closed"
    /\ outcome = Ended("serve_file_raised", "AttributeError")
    /\ Len(SelectSeq(log, IsClose)) = 1

(***************************************************************************)
(* C8.  On a read timeout the session sends a 400 response if and only if  *)
(* unprocessed_data is not empty, then closes the connection, and reads no *)
(* more.                                                                   *)
(***************************************************************************)
C8_TimeoutResponse ==
    [][(outcome.how = "running" /\ outcome'.how = "timeout") =>
           /\ pc' = "closed"
           /\ pos' = pos
           /\ unprocessed_data' = unprocessed_data
           /\ log' = log
                     \o (IF unprocessed_data # <<>> THEN <<client_error_400>>
                         ELSE <<>>)
                     \o <<CloseEvent>>]_vars

\* a client that connected and sent nothing: the connection is closed and
\* no response was sent
C8_Witness ==
    /\ stream = <<>>
    /\ outcome.how = "timeout"
    /\ log = <<CloseEvent>>

\* the frame at the head of a buffer that holds a complete request
HeadFrame == SubSeq(unprocessed_data, 1, Find(unprocessed_data, END_OF_REQUEST) - 1)

(***************************************************************************)
(* C9.  When the frame at the head of the buffer fails to parse, the       *)
(* session's step cuts that frame off, sends one 400 response and closes   *)
(* the connection; it reads nothing and leaves the rest of the buffer      *)
(* where it is; and a closed session takes no further step.                *)
(***************************************************************************)
C9_BadRequestCloses ==
    [][/\ (/\ pc = "get_request"
           /\ Contains(unprocessed_data, END_OF_REQUEST)
           /\ ~parse_request(HeadFrame).ok) =>
              /\ pc' = "closed"
              /\ outcome'.how = "bad_request"
              /\ log' = log \o <<FrameEvent(HeadFrame), client_error_400, CloseEvent>>
              /\ pos' = pos
              /\ unprocessed_data' = SubSeq(unprocessed_data,
                                            Len(HeadFrame) + Len(END_OF_REQUEST) + 1,
                                            Len(unprocessed_data))
       /\ pc = "closed" => FALSE]_vars

\* a bad frame answered with 400 and the session closed while a further
\* complete request was still in the buffer
C9_Witness ==
    /\ outcome.how = "bad_request"
    /\ Contains(unprocessed_data, END_OF_REQUEST)
    /\ log[Len(log) - 1] = client_error_400

IsFile(e) == e.op = "send_file"

(***************************************************************************)
(* C11.  A file is streamed only as the body of a 200 response whose       *)
(* Content-Length is the size __serve_file measured, and the number of     *)
(* bytes streamed equals that Content-Length, or else the session is       *)
(* aborted: the exception escapes, the connection is closed and nothing    *)
(* more is extracted or sent.                                              *)
(***************************************************************************)
C11_ContentLengthMatchesBody ==
    \A j \in DOMAIN log :
        IsFile(log[j]) =>
            /\ j > 1
            /\ IsResponse(log[j - 1])
            /\ log[j - 1].code = 200
            /\ log[j - 1].content_length = os_path_getsize(log[j].data)
            /\ \/ log[j].n = log[j - 1].content_length
               \/ /\ pc = "closed"
                  /\ outcome.how = "serve_file_raised"
                  /\ outcome.exc \in {"AssertionError", "OSError"}
                  /\ Len(log) = j + 1
                  /\ IsClose(log[j + 1])

\* a file that grew between getsize and sendfile: the session was aborted
\* though the request asked for keep-alive and the next one was in the buffer
C11_Witness ==
    /\ outcome = Ended("serve_file_raised", "AssertionError")
    /\ Contains(unprocessed_data, END_OF_REQUEST)
    /\ Len(log) = 4
    /\ IsFile(log[3])
    /\ log[3].n = log[2].content_length + 1
    /\ is_connection_keep_alive(request)

\* str.encode('utf-8'): the bytes that decode to `text`
RECURSIVE Encode(_)
Encode(text) ==
    IF text = <<>> THEN <<>>
    ELSE IF text[1] = EAcute THEN <<LeadByte, ContByte>> \o Encode(Tail(text))
    ELSE <<text[1]>> \o Encode(Tail(text))

\* the frames cut off so far, each followed by its terminator, in order
Framed ==
    Concat([i \in DOMAIN FramesOf(log) |-> FramesOf(log)[i] \o END_OF_REQUEST])

\* what recv() has delivered so far
Received == SubSeq(stream, 1, pos)

(***************************************************************************)
(* C14.  Framer byte conservation: at every point of a session the bytes   *)
(* received so far are the frames extracted so far, each followed by its   *)
(* terminator, followed by unprocessed_data; and the request being         *)
(* dispatched is the parse of the frame extracted last.                    *)
(***************************************************************************)
C14_ByteConservation ==
    /\ Encode(Framed \o unprocessed_data) = Received
    /\ pc = "serve_file" =>
           /\ LastFrameIndex = Len(log)
           /\ LastFrameIndex # 0
           /\ request = parse_request(log[LastFrameIndex].data)

\* the ways the request of `frame` is answered in full: the response and,
\* for a 200, all the bytes its Content-Length announces
CompleteResponses(frame) ==
    {r.events : r \in {x \in serve_file(parse_request(frame).path, serve_config) :
                           x.exc = "none"}}

(***************************************************************************)
(* C16.  Requests of one connection are handled one after another: the     *)
(* session reads from the socket, or cuts a frame off the buffer, only at  *)
(* the top of the framer's loop, and when a frame was extracted before,    *)
(* only after everything since that frame is the complete response to its  *)
(* request.  The log being in the order of the calls, each response        *)
(* follows its own frame and precedes the next.                            *)
(***************************************************************************)
C16_StrictlySequential ==
    [][(pos' # pos \/ Len(FramesOf(log')) # Len(FramesOf(log))) =>
           /\ pc = "get_request"
           /\ LastFrameIndex # 0 =>
                  SinceLastFrame \in CompleteResponses(log[LastFrameIndex].data)]_vars

\* a second frame extracted after the first request was answered with its
\* 200 response and its file
C16_Witness ==
    /\ pc = "serve_file"
    /\ Len(log) = 4
    /\ IsFrame(log[1]) /\ IsFrame(log[4])
    /\ IsResponse(log[2]) /\ log[2].code = 200
    /\ IsFile(log[3]) /\ log[3].n = log[2].content_length

(***************************************************************************)
(* C19.  A response that carries Connection: close (every 400 and every    *)
(* 404) is the last thing the session sends: the close of the connection   *)
(* follows it at once, and no further frame is extracted or answered.      *)
(***************************************************************************)
C19_ConnectionCloseCloses ==
    \A i \in DOMAIN log :
        (IsResponse(log[i]) /\ log[i].connection = "close")
            => /\ Len(log) = i + 1
               /\ IsClose(log[i + 1])

(***************************************************************************)
(* C20.  When recv() returns no bytes before a terminator is found, the    *)
(* session's step sends nothing and closes the connection, whatever        *)
(* unprocessed_data holds, and no exception escapes.  A 400 that answers   *)
(* no extracted frame is sent only by the step of a read timeout.          *)
(***************************************************************************)
C20_PeerCloseSendsNothing ==
    [][/\ (outcome.how = "running" /\ outcome'.how = "peer_closed") =>
              /\ pc' = "closed"
              /\ outcome'.exc = "none"
              /\ log' = Append(log, CloseEvent)
              /\ pos' = pos
              /\ unprocessed_data' = unprocessed_data
       /\ \A i \in (Len(log) + 1)..Len(log') :
              (log'[i] = client_error_400 /\ (i = 1 \/ ~IsFrame(log'[i - 1])))
                  => outcome'.how = "timeout"]_vars

\* the peer closed after the beginning of a request: the connection is
\* closed and nothing was sent
C20_Witness ==
    /\ outcome.how = "peer_closed"
    /\ unprocessed_data = <<"GET", " ", "/", "f">>
    /\ log = <<CloseEvent>>

(***************************************************************************)
(* Sessions whose client sends one request, for a path token of any shape: *)
(* with and without the leading "/", and empty.                            *)
(***************************************************************************)
PathTokens == {<<"/", "f">>, <<"f">>, <<"sub", "/", "f">>, <<"m">>, <<>>}

InitPath ==
    /\ \E path \in PathTokens, keep_alive \in BOOLEAN :
           stream = RequestBytes(path, keep_alive, "HTTP/1.1")
    /\ pos = 0
    /\ unprocessed_data = <<>>
    /\ pc = "get_request"
    /\ request = NoRequest
    /\ serve_config \in SessionConfigs
    /\ log = <<>>
    /\ outcome = Running
    /\ ParserIdle
    /\ TcpIdle

SpecPath == InitPath /\ [][Next]_vars

(***************************************************************************)
(* C18.  Every request the parser returns, and so every request that is    *)
(* dispatched to __serve_file, has a path that starts with "/".            *)
(***************************************************************************)
C18_PathStartsWithSlash ==
    request.ok => StartsWith(request.path, Slash)

(***************************************************************************)
(* Dispatch on its own: __serve_file applied to a parsed request for any   *)
(* path of up to MaxSegments segments, under any configuration.            *)
(***************************************************************************)
Segments == {DotDot, Dot, <<>>, <<"c">>, <<"d">>, <<"d", "2">>, <<"e">>,
             <<"f">>, <<"m">>, <<"sub">>}

RequestPaths(n) ==
    {lead \o Join(segments, Slash) :
        lead \in {<<>>, Slash}, segments \in SeqsUpTo(Segments, n)}

InitServe ==
    /\ stream = <<>>
    /\ pos = 0
    /\ unprocessed_data = <<>>
    /\ pc = "serve_file"
    /\ \E path \in RequestPaths(MaxSegments) :
           request = HTTPRequest(<<"GET">>, path, (<<"Host">> :> <<"h">>))
    /\ serve_config \in Configs
    /\ log = <<>>
    /\ outcome = Running
    /\ ParserIdle
    /\ TcpIdle

NextServe == ServeFile

SpecServe == InitServe /\ [][NextServe]_vars

\* the directory tree's own notion of containment: the path is the docroot
\* or a path below it
InsideDocroot(abs_path) ==
    LET docroot == os_path_abspath(serve_docroot)
    IN  abs_path = docroot \/ StartsWith(abs_path, docroot \o Slash)

\* the absolute path a request path resolves to
Resolved(path) ==
    LET requested_path == IF path = Slash THEN get_index_html_path ELSE path
    IN  get_abspath_relative_to_docroot(
            IF StartsWith(requested_path, Slash) THEN Tail(requested_path)
            ELSE requested_path)

HasDotDot(path) == \E i \in DOMAIN Split(path, Slash) : Split(path, Slash)[i] = DotDot

Dispatched == pc # "serve_file"

(***************************************************************************)
(* C2.  A request path with ../ segments that resolves outside the docroot *)
(* directory, a sibling directory whose name begins with the docroot's     *)
(* name included, is answered with 400: no 200 response is sent and no     *)
(* file is streamed.                                                       *)
(***************************************************************************)
C2_TraversalRejected ==
    (Dispatched /\ HasDotDot(request.path) /\ ~InsideDocroot(Resolved(request.path)))
        => /\ \E i \in DOMAIN log : IsResponse(log[i]) /\ log[i].code = 400
           /\ \A i \in DOMAIN log :
                  /\ IsResponse(log[i]) => log[i].code # 200
                  /\ log[i].op # "send_file"

\* the response `code` was sent and then the page configured under `key` was
\* streamed in full (or the connection failed under a send)
StreamsPage(code, key) ==
    LET page == get_abspath_relative_to_docroot(ConfigPage(key))
    IN  \/ outcome.exc = "OSError"
        \/ /\ Len(log) >= 2
           /\ IsResponse(log[1]) /\ log[1].code = code
           /\ log[2] = FileEvent(page, os_path_getsize(page))

(***************************************************************************)
(* C4.  Custom error body: a request that resolves to a missing file under *)
(* a configuration with a '404' entry is answered with the 404 response    *)
(* followed by the bytes of the configured 404 file, and a request that    *)
(* escapes the docroot under a configuration with a '400' entry with the   *)
(* 400 response followed by the bytes of the configured 400 file (unless   *)
(* the connection fails under the send).                                   *)
(***************************************************************************)
C4_CustomErrorBody ==
    Dispatched =>
        /\ (/\ "404" \in serve_config
            /\ StartsWith(Resolved(request.path), os_path_abspath(serve_docroot))
            /\ ~os_path_exists(Resolved(request.path)))
               => StreamsPage(404, "404")
        /\ (/\ "400" \in serve_config
            /\ ~StartsWith(Resolved(request.path), os_path_abspath(serve_docroot)))
               => StreamsPage(400, "400")

(***************************************************************************)
(* C15.  A request whose path resolves inside the docroot to something     *)
(* that is not a regular file (nothing is there, or a directory is) is     *)
(* answered with 404, and no 200 response is sent.                         *)
(***************************************************************************)
C15_NotARegularFileIs404 ==
    (Dispatched /\ InsideDocroot(Resolved(request.path))
        /\ Resolved(request.path) \notin Files)
        => /\ \E i \in DOMAIN log : IsResponse(log[i]) /\ log[i].code = 404
           /\ \A i \in DOMAIN log : IsResponse(log[i]) => log[i].code # 200

(***************************************************************************)
(* The parser on its own: __parse_request applied to any frame made of a   *)
(* request line of up to MaxHeadline symbols and up to MaxHeaderLines      *)
(* header lines.                                                           *)
(***************************************************************************)
\* a request line is any sequence of these: a method or a version that is
\* not the one the parser wants is one of the other words in its place
HeadlineSymbols == {"GET", " ", "/x", "HTTP/1.1"}

HeaderLines ==
    {<<"Host", ":", " ", "h">>,
     <<"Connection", ":", " ", "keep-alive">>,
     <<"Host", ":", "h">>,
     <<"Host", ":", " ", "h", ":", " ", "h">>}

ParserFrames(n, m) ==
    {Join(<<headline>> \o header_lines, CRLF) :
        headline \in SeqsUpTo(HeadlineSymbols, n),
        header_lines \in SeqsUpTo(HeaderLines, m)}

NotParsed == BadRequestError("not called")

SessionIdle ==
    /\ stream = <<>>
    /\ pos = 0
    /\ unprocessed_data = <<>>
    /\ pc = "idle"
    /\ request = NoRequest
    /\ serve_config = {}
    /\ log = <<>>
    /\ outcome = Running

InitParse ==
    /\ request_string \in ParserFrames(MaxHeadline, MaxHeaderLines)
    /\ parse_result = NotParsed
    /\ SessionIdle
    /\ TcpIdle

ParseRequest ==
    /\ parse_result = NotParsed
    /\ parse_result' = parse_request(request_string)
    /\ UNCHANGED <<request_string, session_vars, tcp_vars>>

NextParse == ParseRequest

SpecParse == InitParse /\ [][NextParse]_vars

(***************************************************************************)
(* The claim's five conditions, read off the text of the frame without     *)
(* splitting it: positions of the separators are counted instead.          *)
(***************************************************************************)
\* the positions at which sep occurs in s
Occurrences(s, sep) ==
    {i \in 1..(Len(s) - Len(sep) + 1) : SubSeq(s, i, i + Len(sep) - 1) = sep}

\* the text before the first CRLF, and the lines after it
FirstLine(text) ==
    IF Occurrences(text, CRLF) = {} THEN text
    ELSE SubSeq(text, 1, (CHOOSE i \in Occurrences(text, CRLF) :
                             \A j \in Occurrences(text, CRLF) : i <= j) - 1)

\* the text of line number k (from 1) of a text with CRLF at the places `at`
LineAt(text, at, k) ==
    LET starts == {1} \cup {i + 2 : i \in at}
        first == CHOOSE i \in starts : Cardinality({j \in starts : j < i}) = k - 1
        ends == {i \in at : i >= first}
        last == IF ends = {} THEN Len(text)
                ELSE (CHOOSE i \in ends : \A j \in ends : i <= j) - 1
    IN  SubSeq(text, first, last)

\* CRLF cannot overlap itself, nor can ": ", so occurrences are separators
NumberOfLines(text) == Cardinality(Occurrences(text, CRLF)) + 1

TextLine(text, k) == LineAt(text, Occurrences(text, CRLF), k)

HeadlineHasThreeTokens(text) ==
    Cardinality(Occurrences(FirstLine(text), <<" ">>)) = 2

MethodIsGet(text) == StartsWith(FirstLine(text), <<"GET", " ">>)

VersionIsHttp11(text) ==
    LET line == FirstLine(text)
    IN  /\ Len(line) >= 2
        /\ SubSeq(line, Len(line) - 1, Len(line)) = <<" ", "HTTP/1.1">>

HeaderLineIsPair(line) == Cardinality(Occurrences(line, <<":", " ">>)) = 1

HasHostKey(text) ==
    \E k \in 2..NumberOfLines(text) :
        StartsWith(TextLine(text, k), <<"Host", ":", " ">>)

Malformed(text) ==
    \/ ~HeadlineHasThreeTokens(text)
    \/ ~MethodIsGet(text)
    \/ ~VersionIsHttp11(text)
    \/ \E k \in 2..NumberOfLines(text) : ~HeaderLineIsPair(TextLine(text, k))
    \/ ~HasHostKey(text)

Parsed == parse_result # NotParsed

(***************************************************************************)
(* C10.  __parse_request raises BadRequestError if and only if the request *)
(* line does not split on single spaces into exactly 3 tokens, or the      *)
(* method is not GET, or the version is not HTTP/1.1, or some later line   *)
(* does not split on ': ' into exactly 2 parts, or no Host header key is   *)
(* present; a request it returns has the method GET and the path token of  *)
(* the request line.                                                       *)
(***************************************************************************)
C10_ParseFailsIffMalformed ==
    Parsed =>
        /\ ~parse_result.ok <=> Malformed(request_string)
        /\ parse_result.ok =>
               /\ parse_result.command = <<"GET">>
               /\ FirstLine(request_string)
                      = <<"GET", " ">> \o parse_result.path \o <<" ", "HTTP/1.1">>
               /\ <<"Host">> \in DOMAIN parse_result.headers

\* a well-formed GET with a Host header and a keep-alive header was parsed
C10_Witness ==
    /\ Parsed
    /\ parse_result.ok
    /\ request_string = <<"GET", " ", "/x", " ", "HTTP/1.1">> \o CRLF
                        \o <<"Host", ":", " ", "h">> \o CRLF
                        \o <<"Connection", ":", " ", "keep-alive">>

(***************************************************************************)
(* TCPServer: the accept loop of serve_forever, the worker threads running *)
(* __handle_new_connection_thread, and server_close, which demo.py calls   *)
(* from its SIGINT handler: the handler runs in the main thread, between   *)
(* two instructions of serve_forever, and ends the process when            *)
(* server_close returns.                                                   *)
(*                                                                         *)
(* Worker t (its ident) is at "unborn" before t.start(), then "acquire"    *)
(* (line 88), "handler" (line 90), "release" (line 92), "cleanup" (line    *)
(* 94-95), and ends "finished", or "key_error" when the del raised.        *)
(* __threads is the sequence of its entries in insertion order; a deleted  *)
(* entry leaves a 0 behind, as in the dict's entry table.                  *)
(***************************************************************************)
Workers == 1..MaxThreads

Live == {i \in DOMAIN threads : threads[i] # 0}

Over(t) == tpc[t] \in {"finished", "key_error"}

Born(t) == tpc[t] # "unborn"

InitTCP ==
    /\ use_daemon_threads \in BOOLEAN
    /\ cap \in 0..(MaxThreads - 1)
    /\ semaphore = cap
    /\ tpc = [t \in Workers |-> "unborn"]
    /\ threads = <<>>
    /\ main_pc = "accept"
    /\ pending = 0
    /\ it_used = 0
    /\ it_pos = 0
    /\ joining = 0
    /\ SessionIdle
    /\ ParserIdle

\* as AcceptAndStart, with the slot taken by the accept loop before the thread
\* is started
AcceptAndStart_WaitsForSlot ==
    /\ main_pc = "accept"
    /\ cap # 0 => semaphore > 0
    /\ \E t \in Workers :
           /\ ~Born(t)
           /\ \A u \in Workers : u < t => Born(u)
           /\ tpc' = [tpc EXCEPT ![t] = "acquire"]
           /\ IF use_daemon_threads
              THEN UNCHANGED <<main_pc, pending>>
              ELSE main_pc' = "register" /\ pending' = t
    /\ UNCHANGED <<use_daemon_threads, cap, semaphore, threads, it_used, it_pos,
                   joining, session_vars, parser_vars>>

\* line 79-83: a connection is accepted and its thread is started
AcceptAndStart ==
    /\ main_pc = "accept"
    /\ \E t \in Workers :
           /\ ~Born(t)
           /\ \A u \in Workers : u < t => Born(u)
           /\ tpc' = [tpc EXCEPT ![t] = "acquire"]
           /\ IF use_daemon_threads
              THEN UNCHANGED <<main_pc, pending>>
              ELSE main_pc' = "register" /\ pending' = t
    /\ UNCHANGED <<use_daemon_threads, cap, semaphore, threads, it_used, it_pos,
                   joining, session_vars, parser_vars>>

\* line 84-85: self.__threads[t.ident] = t
Register ==
    /\ main_pc = "register"
    /\ threads' = Append(threads, pending)
    /\ pending' = 0
    /\ main_pc' = "accept"
    /\ UNCHANGED <<use_daemon_threads, cap, semaphore, tpc, it_used, it_pos,
                   joining, session_vars, parser_vars>>

\* as Acquire, with a semaphore that never blocks
Acquire_NeverBlocks(t) ==
    /\ tpc[t] = "acquire"
    /\ semaphore' = IF cap # 0 /\ semaphore > 0 THEN semaphore - 1 ELSE semaphore
    /\ tpc' = [tpc EXCEPT ![t] = "handler"]
    /\ UNCHANGED <<use_daemon_threads, cap, threads, main_pc, pending, it_used,
                   it_pos, joining, session_vars, parser_vars>>

\* line 88: if self.semaphore: self.semaphore.acquire()
Acquire(t) ==
    /\ tpc[t] = "acquire"
    /\ IF cap # 0
       THEN semaphore > 0 /\ semaphore' = semaphore - 1
       ELSE UNCHANGED semaphore
    /\ tpc' = [tpc EXCEPT ![t] = "handler"]
    /\ UNCHANGED <<use_daemon_threads, cap, threads, main_pc, pending, it_used,
                   it_pos, joining, session_vars, parser_vars>>

\* as HandlerEnds, with the release after the call instead of in a finally
\* clause: a handler that raises ends the thread at once
HandlerEnds_RaiseSkipsRelease(t) ==
    /\ tpc[t] = "handler"
    /\ \E next \in {"release", "finished"} : tpc' = [tpc EXCEPT ![t] = next]
    /\ UNCHANGED <<use_daemon_threads, cap, semaphore, threads, main_pc, pending,
                   it_used, it_pos, joining, session_vars, parser_vars>>

\* line 90: connection_handler_func returns or raises; the finally clause is next
HandlerEnds(t) ==
    /\ tpc[t] = "handler"
    /\ tpc' = [tpc EXCEPT ![t] = "release"]
    /\ UNCHANGED <<use_daemon_threads, cap, semaphore, threads, main_pc, pending,
                   it_used, it_pos, joining, session_vars, parser_vars>>

\* line 92: if self.semaphore: self.semaphore.release()
Release(t) ==
    /\ tpc[t] = "release"
    /\ semaphore' = IF cap # 0 THEN semaphore + 1 ELSE semaphore
    /\ tpc' = [tpc EXCEPT ![t] = "cleanup"]
    /\ UNCHANGED <<use_daemon_threads, cap, threads, main_pc, pending, it_used,
                   it_pos, joining, session_vars, parser_vars>>

\* line 94-95: del self.__threads[threading.get_ident()], KeyError if absent
Cleanup(t) ==
    /\ tpc[t] = "cleanup"
    /\ IF use_daemon_threads
       THEN /\ tpc' = [tpc EXCEPT ![t] = "finished"]
            /\ UNCHANGED threads
       ELSE IF \E i \in Live : threads[i] = t
       THEN /\ threads' = [i \in DOMAIN threads |->
                              IF threads[i] = t THEN 0 ELSE threads[i]]
            /\ tpc' = [tpc EXCEPT ![t] = "finished"]
       ELSE /\ tpc' = [tpc EXCEPT ![t] = "key_error"]
            /\ UNCHANGED threads
    /\ UNCHANGED <<use_daemon_threads, cap, semaphore, main_pc, pending, it_used,
                   it_pos, joining, session_vars, parser_vars>>

\* line 98-100: SIGINT arrives; the socket is closed and, without daemon
\* threads, the iterator over self.__threads.values() is made
ServerClose ==
    /\ main_pc \in {"accept", "register"}
    /\ IF use_daemon_threads
       THEN main_pc' = "closed" /\ UNCHANGED <<it_used, it_pos>>
       ELSE /\ main_pc' = "iterating"
            /\ it_used' = Cardinality(Live)
            /\ it_pos' = 0
    /\ UNCHANGED <<use_daemon_threads, cap, semaphore, tpc, threads, pending,
                   joining, session_vars, parser_vars>>

\* line 100: the for statement asks the iterator for the next thread.  The
\* iterator raises RuntimeError when the dict has changed size since it was
\* made; else it moves to the next entry that is not deleted, or stops.
IterNext ==
    /\ main_pc = "iterating"
    /\ IF Cardinality(Live) # it_used
       THEN main_pc' = "close_raised" /\ UNCHANGED <<it_pos, joining>>
       ELSE LET ahead == {i \in Live : i > it_pos}
            IN  IF ahead = {}
                THEN main_pc' = "closed" /\ UNCHANGED <<it_pos, joining>>
                ELSE LET i == CHOOSE i \in ahead : \A j \in ahead : i <= j
                     IN  /\ it_pos' = i
                         /\ joining' = threads[i]
                         /\ main_pc' = "joining"
    /\ UNCHANGED <<use_daemon_threads, cap, semaphore, tpc, threads, pending,
                   it_used, session_vars, parser_vars>>

\* line 101: t.join() returns when the thread is over
JoinThread ==
    /\ main_pc = "joining"
    /\ Over(joining)
    /\ main_pc' = "iterating"
    /\ UNCHANGED <<use_daemon_threads, cap, semaphore, tpc, threads, pending,
                   it_used, it_pos, joining, session_vars, parser_vars>>

NextTCP ==
    \/ AcceptAndStart
    \/ Register
    \/ ServerClose
    \/ IterNext
    \/ JoinThread
    \/ \E t \in Workers : Acquire(t)
    \/ \E t \in Workers : HandlerEnds(t)
    \/ \E t \in Workers : Release(t)
    \/ \E t \in Workers : Cleanup(t)

SpecTCP == InitTCP /\ [][NextTCP]_vars

InHandler == {t \in Workers : tpc[t] = "handler"}

(***************************************************************************)
(* C6.  With a cap configured, the number of worker threads executing      *)
(* connection_handler_func never exceeds max_number_of_active_threads, and *)
(* the semaphore counts the slots that are left.                           *)
(***************************************************************************)
C6_ActiveHandlersBounded ==
    cap # 0 =>
        /\ Cardinality(InHandler) <= cap
        /\ semaphore = cap - Cardinality({t \in Workers :
                                             tpc[t] \in {"handler", "release"}})

\* the cap is reached and another worker waits at the gate
C6_Witness ==
    /\ cap = 2
    /\ Cardinality(InHandler) = 2
    /\ \E t \in Workers : tpc[t] = "acquire"
    /\ semaphore = 0

(***************************************************************************)
(* C7.  In non-daemon mode, when server_close has returned, or has failed, *)
(* every worker thread that serve_forever started is over.                 *)
(***************************************************************************)
C7_CloseWaitsForWorkers ==
    (~use_daemon_threads /\ main_pc \in {"closed", "close_raised"})
        => \A t \in Workers : Born(t) => Over(t)

(***************************************************************************)
(* C12.  The accept loop waits for no handler and for no slot: whatever    *)
(* the workers are doing and however many slots are left, the thread that  *)
(* was started can be registered, and the next connection can be accepted  *)
(* and its thread started (as long as the model has a thread left to       *)
(* start).                                                                 *)
(***************************************************************************)
C12_AcceptNeverBlocked ==
    /\ main_pc = "register" => ENABLED Register
    /\ (main_pc = "accept" /\ \E t \in Workers : ~Born(t)) => ENABLED AcceptAndStart

\* every slot is held by a running session, a second worker waits at the
\* gate, and the loop is back at accept() with a connection still to come
C12_Witness ==
    /\ cap = 1
    /\ semaphore = 0
    /\ tpc = <<"handler", "acquire", "unborn">>
    /\ main_pc = "accept"
    /\ ENABLED AcceptAndStart

(***************************************************************************)
(* C13.  Without daemon threads the registry __threads holds exactly the   *)
(* workers that were dispatched and are not over: a worker whose thread    *)
(* the accept loop has registered stays in it until it is over, the del of *)
(* a worker never raises, and no worker that is over is in it, so that it  *)
(* is empty once every started worker is over.                             *)
(***************************************************************************)
C13_RegistryTracksWorkers ==
    ~use_daemon_threads =>
        /\ \A t \in Workers : tpc[t] # "key_error"
        /\ \A t \in Workers :
               (Born(t) /\ ~Over(t) /\ pending # t)
                   => \E i \in Live : threads[i] = t
        /\ \A i \in Live : ~Over(threads[i])
        /\ (main_pc = "accept" /\ \A t \in Workers : Born(t) => Over(t))
               => Live = {}

(***************************************************************************)
(* The process ends when demo.py's SIGINT handler calls sys.exit() after   *)
(* server_close returned: daemon threads end with it, other threads are    *)
(* waited for.                                                             *)
(***************************************************************************)
Exited == use_daemon_threads /\ main_pc = "closed"

\* threads of a live process get to run; a session that runs comes to an end
\* (the proviso of C17)
WorkersProgress ==
    \A t \in Workers :
        /\ WF_vars(~Exited /\ Acquire(t))
        /\ WF_vars(~Exited /\ HandlerEnds(t))
        /\ WF_vars(~Exited /\ Release(t))

SpecTCPFair == SpecTCP /\ WorkersProgress

\* the workers that hold a slot: acquire() returned and release() is to come
SlotHolders == {t \in Workers : tpc[t] \in {"handler", "release"}}

(***************************************************************************)
(* C17.  Gate slots never leak.  A worker whose handler ends, by return or *)
(* by exception, goes on to release(), and its release() gives back one    *)
(* slot; the semaphore grows by no other step; so when no worker holds a   *)
(* slot the semaphore is at cap.  And when sessions terminate and threads  *)
(* get to run, a worker waiting in acquire() gets past it (or the process  *)
(* has exited under it).                                                   *)
(***************************************************************************)
C17_SlotsNeverLeak ==
    /\ []((cap # 0 /\ SlotHolders = {}) => semaphore = cap)
    /\ [][\A t \in Workers :
              /\ (tpc[t] = "handler" /\ tpc'[t] # "handler") => tpc'[t] = "release"
              /\ (tpc[t] = "release" /\ tpc'[t] # "release") =>
                     /\ tpc'[t] = "cleanup"
                     /\ cap # 0 => semaphore' = semaphore + 1
              /\ semaphore' > semaphore =>
                     \E u \in Workers : tpc[u] = "release" /\ tpc'[u] = "cleanup"]_vars
    /\ \A t \in Workers :
           (tpc[t] = "acquire") ~> (tpc[t] # "acquire" \/ Exited)

\* the one slot, given back by the first worker, is held by the second
\* while the third waits at the gate
C17_Witness ==
    /\ cap = 1
    /\ Over(1)
    /\ tpc[2] = "handler"
    /\ tpc[3] = "acquire"
    /\ semaphore = 0

====
